---------------------------- MODULE Spec2Model ----------------------------
(***************************************************************************)
(* Model of the Afrobeats playlist generator (src/main.py): the text       *)
(* classifier is_authentic_afrobeats, and the pipeline run() drives:       *)
(* search_afrobeats_videos -> get_video_and_channel_stats ->               *)
(* filter_up_and_coming_artists -> create_real_youtube_playlist /          *)
(* create_manual_instructions.                                             *)
(*                                                                         *)
(* Text is a sequence of one-character strings, so that Python's           *)
(* substring test (`term in all_text`) and str.lower() are modelled by     *)
(* what they do on characters.                                             *)
(***************************************************************************)
EXTENDS Integers, Sequences, FiniteSets, TLC

(***************************************************************************)
(* Text primitives                                                         *)
(***************************************************************************)

\* The single space the f-string and ' '.join put between the parts.
SP == <<" ">>

\* str.lower() on one character (ASCII letters; everything else unchanged).
UpperToLower ==
    [A |-> "a", B |-> "b", C |-> "c", D |-> "d", E |-> "e", F |-> "f",
     G |-> "g", H |-> "h", I |-> "i", J |-> "j", K |-> "k", L |-> "l",
     M |-> "m", N |-> "n", O |-> "o", P |-> "p", Q |-> "q", R |-> "r",
     S |-> "s", T |-> "t", U |-> "u", V |-> "v", W |-> "w", X |-> "x",
     Y |-> "y", Z |-> "z"]

LowerChar(c) == IF c \in DOMAIN UpperToLower THEN UpperToLower[c] ELSE c

\* str.lower() on a text.
Lower(text) == [i \in 1..Len(text) |-> LowerChar(text[i])]

\* Python's `term in text` for strings: term occurs as a contiguous substring.
Contains(text, term) ==
    \E i \in 0..(Len(text) - Len(term)) :
        \A j \in 1..Len(term) : text[i + j] = term[j]

\* ' '.join(tags)
RECURSIVE Join(_)
Join(tags) ==
    IF tags = <<>> THEN <<>>
    ELSE IF Len(tags) = 1 THEN Head(tags)
    ELSE Head(tags) \o SP \o Join(Tail(tags))

(***************************************************************************)
(* Configuration set by __init__                                           *)
(***************************************************************************)

max_subscribers == 250000
max_channel_views == 3000000
min_video_views == 5000

\* The seed phrases are only passed to the search API as q=...; the model
\* keeps their number and order, not their text.
NumKeywords == 12

required_afrobeats_terms ==
    << <<"a","f","r","o","b","e","a","t","s">>, <<"a","f","r","o","b","e","a","t">>, <<"n","a","i","j","a">>, <<"n","i","g","e","r","i","a">>, <<"n","i","g","e","r","i","a","n">>,
       <<"g","h","a","n","a">>, <<"g","h","a","n","a","i","a","n">>, <<"l","a","g","o","s">>, <<"a","c","c","r","a">>, <<"y","o","r","u","b","a">>, <<"i","g","b","o">>,
       <<"a","m","a","p","i","a","n","o">>, <<"a","f","r","o"," ","b","e","a","t","s">>, <<"a","f","r","o","-","b","e","a","t","s">> >>

african_music_terms ==
    << <<"p","i","d","g","i","n"," ","e","n","g","l","i","s","h">>, <<"y","o","r","u","b","a"," ","m","u","s","i","c">>, <<"i","g","b","o"," ","m","u","s","i","c">>, <<"h","a","u","s","a"," ","m","u","s","i","c">>,
       <<"t","w","i"," ","m","u","s","i","c">>, <<"a","k","a","n"," ","m","u","s","i","c">>, <<"a","f","r","i","c","a","n"," ","m","u","s","i","c">>, <<"w","e","s","t"," ","a","f","r","i","c","a">>,
       <<"n","i","g","e","r","i","a"," ","m","u","s","i","c">>, <<"g","h","a","n","a"," ","m","u","s","i","c">>, <<"a","f","r","o"," ","p","o","p">>, <<"a","f","r","o"," ","f","u","s","i","o","n">> >>

exclude_terms ==
    << <<"c","o","v","e","r">>, <<"r","e","m","i","x"," ","o","f">>, <<"k","a","r","a","o","k","e">>, <<"i","n","s","t","r","u","m","e","n","t","a","l">>, <<"t","u","t","o","r","i","a","l">>,
       <<"r","e","a","c","t","i","o","n">>, <<"r","e","v","i","e","w">>, <<"b","e","h","i","n","d"," ","t","h","e"," ","s","c","e","n","e","s">>, <<"i","n","t","e","r","v","i","e","w">>,
       <<"g","o","s","p","e","l">>, <<"c","h","r","i","s","t","i","a","n">>, <<"w","o","r","s","h","i","p">>, <<"h","i","g","h","l","i","f","e">>, <<"j","u","j","u"," ","m","u","s","i","c">>,
       <<"f","u","j","i"," ","m","u","s","i","c">>, <<"m","a","k","o","s","s","a">>, <<"s","o","u","k","o","u","s">>, <<"r","e","g","g","a","e">>, <<"d","a","n","c","e","h","a","l","l">> >>

\* The inline list of line 163.
music_terms == << <<"m","u","s","i","c">>, <<"s","o","n","g">>, <<"t","r","a","c","k">>, <<"o","f","f","i","c","i","a","l">>, <<"v","i","d","e","o">> >>

(***************************************************************************)
(* is_authentic_afrobeats (lines 134-169)                                  *)
(***************************************************************************)

\* Line 140: the lower-cased blob of title, description, channel title, tags.
AllText(title, description, channel_title, tags) ==
    Lower(title \o SP \o description \o SP \o channel_title \o SP \o Join(tags))

\* Lines 143-145: the loop over exclude_terms, returning at the first hit.
RECURSIVE HitsExcluded(_, _)
HitsExcluded(all_text, i) ==
    IF i > Len(exclude_terms) THEN FALSE
    ELSE IF Contains(all_text, exclude_terms[i]) THEN TRUE
    ELSE HitsExcluded(all_text, i + 1)

\* Lines 148-157: a score is incremented once per list entry found in the text.
RECURSIVE Score(_, _, _)
Score(terms, all_text, i) ==
    IF i > Len(terms) THEN 0
    ELSE (IF Contains(all_text, terms[i]) THEN 1 ELSE 0)
         + Score(terms, all_text, i + 1)

\* Line 160.
MutAfrobeatsSignal(afrobeats_score, african_score) ==
    (afrobeats_score >= 2) \/ (afrobeats_score >= 1 \/ african_score >= 1)

AfrobeatsSignal(afrobeats_score, african_score) ==
    (afrobeats_score >= 2) \/ (afrobeats_score >= 1 /\ african_score >= 1)

\* Line 163.
HasMusicTerms(all_text) ==
    \E k \in 1..Len(music_terms) : Contains(all_text, music_terms[k])

is_authentic_afrobeats(title, description, channel_title, tags) ==
    LET all_text == AllText(title, description, channel_title, tags)
    IN  IF HitsExcluded(all_text, 1) THEN FALSE
        ELSE LET afrobeats_score == Score(required_afrobeats_terms, all_text, 1)
                 african_score == Score(african_music_terms, all_text, 1)
             IN  AfrobeatsSignal(afrobeats_score, african_score)
                 /\ HasMusicTerms(all_text)

(***************************************************************************)
(* Bounds of the model                                                     *)
(***************************************************************************)

\* Most search results handled in one run (all seed phrases together).
MaxVideos == 3

\* Longest tag list handed to the classifier on its own.
MaxTags == 1

\* Identifiers beyond one full batch handed to get_video_and_channel_stats
\* on its own.
MaxOver == 1

(***************************************************************************)
(* Program constants                                                       *)
(***************************************************************************)

\* maxResults of the search request (line 189).
maxResults == 20

\* Batch size of the videos.list / channels.list requests (lines 241, 268).
BatchSize == 50

\* sorted_videos[:50] (line 379).
MaxPlaylistItems == 50

\* sorted_videos[:20] (line 444).
MaxManualVideos == 20

\* Line 470.  What create_real_youtube_playlist returns is kept as a sequence
\* of text pieces, so that a URL (prefix, id) compares with it.
MANUAL_CREATION_GUIDE == << "MANUAL_CREATION_GUIDE" >>

(***************************************************************************)
(* The external service: what the API can answer                           *)
(***************************************************************************)

\* How an .execute() call can end: with a response, with the HttpError the
\* client raises for an error status, or with any other exception (transport
\* failure, timeout, token refresh failure), which is not an HttpError.
Outcomes == {"ok", "HttpError", "Error"}

T_Official == <<"N","a","i","j","a"," ","A","f","r","o","b","e","a","t","s"," ","O","f","f","i","c","i","a","l"," ","V","i","d","e","o">>

\* The items search().list can return for a phrase (id.videoId and the
\* snippet fields the code reads; publishedAt and the thumbnail are copied
\* into the record and never read again, and are left out).
SearchItems ==
    { [videoId |-> "v1", title |-> T_Official,
       channelId |-> "ch1", channelTitle |-> <<"L","a","g","o","s"," ","S","o","u","n","d">>, description |-> <<>>],
      [videoId |-> "v1", title |-> <<"L","a","g","o","s"," ","A","f","r","o","b","e","a","t"," ","S","o","n","g">>,
       channelId |-> "ch1", channelTitle |-> <<"L","a","g","o","s"," ","S","o","u","n","d">>, description |-> <<>>],
      [videoId |-> "v2", title |-> <<"A","c","c","r","a"," ","T","r","a","c","k">>,
       channelId |-> "ch2", channelTitle |-> <<"V","i","b","e","s">>, description |-> <<"A","f","r","o"," ","P","o","p">>],
      [videoId |-> "v3", title |-> T_Official,
       channelId |-> "ch3", channelTitle |-> <<"B","i","g"," ","L","a","b","e","l">>, description |-> <<>>],
      [videoId |-> "v4", title |-> T_Official,
       channelId |-> "ch1", channelTitle |-> <<"L","a","g","o","s"," ","S","o","u","n","d">>, description |-> <<>>],
      [videoId |-> "v5", title |-> T_Official,
       channelId |-> "ch4", channelTitle |-> <<"O","l","d"," ","H","i","t","s">>, description |-> <<>>],
      [videoId |-> "v6", title |-> <<"H","i","g","h","l","i","f","e"," ","C","o","v","e","r"," ","o","f"," ","O","l","d"," ","N","a","i","j","a"," ","S","o","n","g">>,
       channelId |-> "ch2", channelTitle |-> <<"V","i","b","e","s">>, description |-> <<>>],
      [videoId |-> "v7", title |-> T_Official,
       channelId |-> "ch2", channelTitle |-> <<"V","i","b","e","s">>, description |-> <<>>],
      [videoId |-> "v8", title |-> T_Official,
       channelId |-> "ch2", channelTitle |-> <<"V","i","b","e","s">>, description |-> <<>>],
      [videoId |-> "v9", title |-> T_Official,
       channelId |-> "ch5", channelTitle |-> <<"G","h","o","s","t">>, description |-> <<>>] }

\* The resources videos().list knows, by id: statistics values are decimal
\* texts, and a field can be absent (hidden likes, no tags).  v8 is not
\* served at all (removed or private since the search).
VideoResources ==
    [v \in {"v1", "v2", "v3", "v4", "v5", "v6", "v7", "v9"} |->
        CASE v = "v1" -> [statistics |-> [viewCount |-> <<"5","0","0","0">>, commentCount |-> <<"7">>],
                          duration |-> "PT3M"]
          [] v = "v2" -> [statistics |-> [viewCount |-> <<"9","0","0","0","0","0">>, likeCount |-> <<"1","2","0">>,
                                          commentCount |-> <<"9">>],
                          duration |-> "PT4M", tags |-> << <<"N","a","i","j","a">> >>]
          [] v = "v3" -> [statistics |-> [viewCount |-> <<"1","0","0","0","0">>, likeCount |-> <<"3","0">>],
                          duration |-> "PT3M"]
          [] v = "v4" -> [statistics |-> [viewCount |-> <<"4","9","9","9">>],
                          duration |-> "PT2M"]
          [] v = "v7" -> [statistics |-> [viewCount |-> <<"2","0","0","0","0">>],
                          duration |-> "PT5M", tags |-> << <<"g","o","s","p","e","l">> >>]
          [] OTHER    -> [statistics |-> [viewCount |-> <<"1","0","0","0","0">>],
                          duration |-> "PT3M"] ]

\* The resources channels().list knows, by id.  ch1 hides its subscriber
\* count; ch5 is not served at all.
ChannelResources ==
    [c \in {"ch1", "ch2", "ch3", "ch4"} |->
        CASE c = "ch1" -> [statistics |-> [viewCount |-> <<"3","0","0","0","0","0","0">>, videoCount |-> <<"1","2">>],
                           snippet |-> [country |-> "NG", description |-> <<"L","a","g","o","s">>]]
          [] c = "ch2" -> [statistics |-> [subscriberCount |-> <<"2","5","0","0","0","0">>,
                                           viewCount |-> <<"1","0","0","0","0","0","0">>, videoCount |-> <<"4","0">>],
                           snippet |-> [description |-> <<"A","c","c","r","a">>]]
          [] c = "ch3" -> [statistics |-> [subscriberCount |-> <<"3","0","0","0","0","0">>,
                                           viewCount |-> <<"1","0","0","0","0","0">>, videoCount |-> <<"3">>],
                           snippet |-> [country |-> "GH"]]
          [] OTHER    -> [statistics |-> [subscriberCount |-> <<"9","0","0">>,
                                          viewCount |-> <<"3","0","0","0","0","0","1">>, videoCount |-> <<"5">>],
                           snippet |-> [country |-> "NG"]] ]

\* Further videos and channels, numbered, for candidate lists longer than a
\* batch: every seventh video and every fifth channel is not served, and
\* every third one served comes without its count fields.
BulkNumbers == 1..(BatchSize + MaxOver)

BulkVideoId(n) == "b" \o ToString(n)

BulkChannelId(n) == "k" \o ToString(n)

BulkVideoResource(n) ==
    IF n % 3 = 0
    THEN [statistics |-> [likeCount |-> <<"3">>], duration |-> "PT3M"]
    ELSE [statistics |-> [viewCount |-> <<"6","0","0","0">>, likeCount |-> <<"3">>,
                          commentCount |-> <<"1">>],
          duration |-> "PT3M"]

BulkChannelResource(n) ==
    IF n % 3 = 0
    THEN [statistics |-> [videoCount |-> <<"2">>], snippet |-> [country |-> "NG"]]
    ELSE [statistics |-> [subscriberCount |-> <<"8","0","0">>, viewCount |-> <<"9","0","0","0","0">>,
                          videoCount |-> <<"2">>],
          snippet |-> [country |-> "NG"]]

BulkVideoResources ==
    LET served == { n \in BulkNumbers : n % 7 # 0 }
    IN  [id \in { BulkVideoId(n) : n \in served } |->
            BulkVideoResource(CHOOSE n \in served : BulkVideoId(n) = id)]

BulkChannelResources ==
    LET served == { n \in BulkNumbers : n % 5 # 0 }
    IN  [id \in { BulkChannelId(n) : n \in served } |->
            BulkChannelResource(CHOOSE n \in served : BulkChannelId(n) = id)]

\* The id playlists().insert gives the new playlist.
NewPlaylistId == "PL1"

(***************************************************************************)
(* Python helpers                                                          *)
(***************************************************************************)

Min(a, b) == IF a <= b THEN a ELSE b

Digits == <<"0", "1", "2", "3", "4", "5", "6", "7", "8", "9">>

DigitValue(c) == (CHOOSE d \in 1..Len(Digits) : Digits[d] = c) - 1

\* int(text) for a decimal text.
RECURSIVE ParseInt(_)
ParseInt(text) ==
    IF text = <<>> THEN 0
    ELSE ParseInt(SubSeq(text, 1, Len(text) - 1)) * 10 + DigitValue(text[Len(text)])

\* int(stats.get(key, 0))
IntField(stats, key) ==
    IF key \in DOMAIN stats THEN ParseInt(stats[key]) ELSE 0

\* mapping.get(key, default)
Get(mapping, key, default) ==
    IF key \in DOMAIN mapping THEN mapping[key] ELSE default

\* dict.update: the keys of `other` are added, and overwrite equal keys.
Update(d, other) ==
    [k \in DOMAIN d \cup DOMAIN other |->
        IF k \in DOMAIN other THEN other[k] ELSE d[k]]

EmptyDict == [k \in {} |-> 0]

\* seq[a:b] of Python, 0-based and end-exclusive.
MutSlice(seq, a, b) == SubSeq(seq, a + 1, Min(b + 1, Len(seq)))

Slice(seq, a, b) == SubSeq(seq, a + 1, Min(b, Len(seq)))

\* sorted(videos, key=lambda x: x['view_count'], reverse=True): a stable
\* sort, so elements with equal keys keep their order.
RECURSIVE InsertDesc(_, _)
InsertDesc(sorted, x) ==
    IF sorted = <<>> THEN <<x>>
    ELSE IF Head(sorted).view_count >= x.view_count
         THEN <<Head(sorted)>> \o InsertDesc(Tail(sorted), x)
         ELSE <<x>> \o sorted

RECURSIVE SortedByViews(_)
SortedByViews(seq) ==
    IF seq = <<>> THEN <<>>
    ELSE InsertDesc(SortedByViews(SubSeq(seq, 1, Len(seq) - 1)), seq[Len(seq)])

(***************************************************************************)
(* State                                                                   *)
(***************************************************************************)

VARIABLES
    pc,                   \* where run() stands
    can_create_playlists, \* self.can_create_playlists, set by _setup_youtube
    youtube,              \* self.youtube: the kind of session the client was built with
    setup,                \* how _setup_youtube went: why it fell back, how the probe ended
    kw,                   \* seed phrases already searched
    afrobeats_videos,     \* the list search_afrobeats_videos accumulates
    videos,               \* run's videos: the de-duplicated search result
    vi,                   \* i of the videos.list batch loop
    video_stats,          \* video id -> statistics gathered
    ch_requested,         \* channel ids already sent to channels.list
    channel_stats,        \* channel id -> statistics gathered
    filtered_videos,      \* what filter_up_and_coming_artists returned
    sorted_videos,        \* create_real_youtube_playlist's sorted_videos
    playlist_id,          \* playlist_id of the playlist created
    idx,                  \* i of the playlistItems.insert loop
    added,                \* the counter `added`
    last,                 \* the external call the last step made, and how it ended
    called,               \* the stage functions run() has called
    stats_requests,       \* videos.list and channels.list requests issued
    stats_log,            \* those requests: the call, the ids asked for, how it ended
    playlist_inserts,     \* playlists.insert requests issued
    item_inserts,         \* playlistItems.insert requests issued, in order
    manual_file,          \* content of afrobeats_manual_playlist.json
    result,               \* what create_real_youtube_playlist returned
    raised,               \* the stage an exception escaped from, caught by run()
    cls                   \* one call of is_authentic_afrobeats on its own

vars == << pc, can_create_playlists, youtube, setup, kw, afrobeats_videos, videos, vi,
           video_stats, ch_requested, channel_stats, filtered_videos,
           sorted_videos, playlist_id, idx, added, last, called,
           stats_requests, stats_log, playlist_inserts, item_inserts, manual_file, result, raised, cls >>

NoCall == [call |-> "none", outcome |-> "ok"]

NoFile == [written |-> FALSE]

NoResult == << "not returned" >>

NoPlaylist == "no playlist"

NoClassify == [called |-> FALSE, title |-> <<>>, description |-> <<>>,
               channel_title |-> <<>>, tags |-> <<>>, verdict |-> FALSE]

(***************************************************************************)
(* search_afrobeats_videos (lines 171-231)                                 *)
(***************************************************************************)

\* Lines 196-204: the record built from one search item.
MakeVideo(item) ==
    [video_id |-> item.videoId, title |-> item.title,
     channel_id |-> item.channelId, channel_title |-> item.channelTitle,
     description |-> item.description]

\* The classifier is pure: its verdict on each item the service can return,
\* as the call of lines 207-211 (no tags) computes it.
SearchVerdict ==
    [item \in SearchItems |->
        is_authentic_afrobeats(item.title, item.description,
                               item.channelTitle, <<>>)]

\* Lines 195-213: the loop over search_response['items'].
RECURSIVE AppendAccepted(_, _)
AppendAccepted(acc, items) ==
    IF items = <<>> THEN acc
    ELSE AppendAccepted(
             IF SearchVerdict[Head(items)]
             THEN Append(acc, MakeVideo(Head(items)))
             ELSE acc,
             Tail(items))

\* One assignment d[v['video_id']] = v of the dict comprehension: a dict,
\* kept as the sequence of its values in insertion order; assigning to a key
\* already present replaces the value and keeps the key's place.
MutDictPut(d, v) ==
    IF \E k \in 1..Len(d) : d[k].video_id = v.video_id THEN d ELSE Append(d, v)

DictPut(d, v) ==
    IF \E k \in 1..Len(d) : d[k].video_id = v.video_id
    THEN [k \in 1..Len(d) |-> IF d[k].video_id = v.video_id THEN v ELSE d[k]]
    ELSE Append(d, v)

\* Lines 223 and 231: list({v['video_id']: v for v in afrobeats_videos}.values())
RECURSIVE UniqueVideos(_)
UniqueVideos(vs) ==
    IF vs = <<>> THEN <<>>
    ELSE DictPut(UniqueVideos(SubSeq(vs, 1, Len(vs) - 1)), vs[Len(vs)])

\* Lines 179-220: one iteration of the loop over the seed phrases.
SearchKeyword ==
    /\ pc = "search"
    /\ kw < NumKeywords
    /\ \E outcome \in Outcomes :
        /\ last' = [call |-> "search.list", outcome |-> outcome]
        /\ CASE outcome = "ok" ->
                   \E n \in 0..Min(maxResults, MaxVideos - Len(afrobeats_videos)) :
                   \E items \in [1..n -> SearchItems] :
                       /\ afrobeats_videos' = AppendAccepted(afrobeats_videos, items)
                       /\ kw' = kw + 1
                       /\ UNCHANGED << pc, raised >>
             [] outcome = "HttpError" ->
                   \* except HttpError: continue
                   /\ kw' = kw + 1
                   /\ UNCHANGED << afrobeats_videos, pc, raised >>
             [] outcome = "Error" ->
                   \* not an HttpError: leaves the function, caught at line 508
                   /\ raised' = "search_afrobeats_videos"
                   /\ pc' = "done"
                   /\ UNCHANGED << afrobeats_videos, kw >>
    /\ UNCHANGED << can_create_playlists, youtube, setup, playlist_id, videos, vi, video_stats, ch_requested,
                    channel_stats, filtered_videos, sorted_videos, idx, added,
                    called, stats_requests, stats_log, playlist_inserts, item_inserts,
                    manual_file, result, cls >>

\* Lines 481-486 of run(): what follows the search.
MutAfterSearch(vs) == "video_stats"

AfterSearch(vs) == IF vs = <<>> THEN "done" ELSE "video_stats"

\* Lines 222-231, and run() taking the result (lines 480-486).
SearchReturn ==
    /\ pc = "search"
    /\ kw = NumKeywords
    /\ videos' = UniqueVideos(afrobeats_videos)
    /\ pc' = AfterSearch(videos')
    /\ called' = IF pc' = "done" THEN called
                 ELSE called \cup {"get_video_and_channel_stats"}
    /\ last' = NoCall
    /\ UNCHANGED << can_create_playlists, youtube, setup, playlist_id, kw, afrobeats_videos, vi, video_stats,
                    ch_requested, channel_stats, filtered_videos, sorted_videos,
                    idx, added, stats_requests, stats_log, playlist_inserts, item_inserts,
                    manual_file, result, raised, cls >>

(***************************************************************************)
(* get_video_and_channel_stats (lines 233-291)                             *)
(***************************************************************************)

\* Everything videos().list and channels().list can serve.
ServedVideos == Update(VideoResources, BulkVideoResources)

ServedChannels == Update(ChannelResources, BulkChannelResources)

\* Lines 250-257: the entry stored for one video resource.
VideoEntry(video) ==
    [view_count |-> IntField(video.statistics, "viewCount"),
     like_count |-> IntField(video.statistics, "likeCount"),
     comment_count |-> IntField(video.statistics, "commentCount"),
     duration |-> video.duration,
     tags |-> Get(video, "tags", <<>>)]

\* Lines 277-285: the entry stored for one channel resource.
ChannelEntry(channel) ==
    [subscriber_count |-> IntField(channel.statistics, "subscriberCount"),
     view_count |-> IntField(channel.statistics, "viewCount"),
     video_count |-> IntField(channel.statistics, "videoCount"),
     country |-> Get(channel.snippet, "country", ""),
     description |-> Get(channel.snippet, "description", <<>>)]

\* Lines 249-257: the entries a successful videos.list batch adds, one per
\* requested id the service knows.
VideoBatchEntries(batch) ==
    [id \in batch \cap DOMAIN ServedVideos |-> VideoEntry(ServedVideos[id])]

\* Lines 276-285: the same for a channels.list batch.
ChannelBatchEntries(batch) ==
    [id \in batch \cap DOMAIN ServedChannels |->
        ChannelEntry(ServedChannels[id])]

\* Line 238.
VideoIds == [k \in 1..Len(videos) |-> videos[k].video_id]

\* Line 265: the distinct channel ids (the order of list(set(...)) is arbitrary).
ChannelIds == { videos[k].channel_id : k \in 1..Len(videos) }

\* Lines 241-261: one iteration of the videos.list batch loop.  Every
\* exception is caught here (except Exception).
VideoStatsBatch ==
    /\ pc = "video_stats"
    /\ vi < Len(VideoIds)
    /\ LET batch == Slice(VideoIds, vi, vi + BatchSize)
           ids == { batch[k] : k \in 1..Len(batch) }
       IN  \E outcome \in Outcomes :
            /\ last' = [call |-> "videos.list", outcome |-> outcome]
            /\ stats_log' = Append(stats_log, [call |-> "videos.list", ids |-> ids,
                                               outcome |-> outcome])
            /\ video_stats' =
                   IF outcome = "ok"
                   THEN Update(video_stats, VideoBatchEntries(ids))
                   ELSE video_stats
    /\ stats_requests' = stats_requests + 1
    /\ vi' = vi + BatchSize
    /\ pc' = IF vi' < Len(VideoIds) THEN "video_stats" ELSE "channel_stats"
    /\ UNCHANGED << can_create_playlists, youtube, setup, playlist_id, kw, afrobeats_videos, videos,
                    ch_requested, channel_stats, filtered_videos, sorted_videos,
                    idx, added, called, playlist_inserts, item_inserts,
                    manual_file, result, raised, cls >>

\* The subsets of S with k elements.
RECURSIVE KSubsets(_, _)
KSubsets(S, k) ==
    IF k = 0 THEN { {} }
    ELSE UNION { { T \cup {x} : T \in KSubsets(S \ {x}, k - 1) } : x \in S }

\* Line 269: channel_ids[i:i+50] for an arbitrary order of the ids not yet
\* requested: any Min(50, number left) of them.
NextBatches(remaining) ==
    LET left_over == Cardinality(remaining) - Min(BatchSize, Cardinality(remaining))
    IN  { remaining \ rest : rest \in KSubsets(remaining, left_over) }

\* Lines 268-289: one iteration of the channels.list batch loop: the next
\* (at most 50) ids of channel_ids, whose order is arbitrary.
ChannelStatsBatch ==
    /\ pc = "channel_stats"
    /\ LET remaining == ChannelIds \ ch_requested
       IN  \E batch \in NextBatches(remaining) :
            /\ \E outcome \in Outcomes :
                /\ last' = [call |-> "channels.list", outcome |-> outcome]
                /\ stats_log' = Append(stats_log, [call |-> "channels.list",
                                                   ids |-> batch,
                                                   outcome |-> outcome])
                /\ channel_stats' =
                       IF outcome = "ok"
                       THEN Update(channel_stats, ChannelBatchEntries(batch))
                       ELSE channel_stats
            /\ ch_requested' = ch_requested \cup batch
            /\ pc' = IF ch_requested' = ChannelIds THEN "filter" ELSE "channel_stats"
    /\ stats_requests' = stats_requests + 1
    /\ called' = IF pc' = "filter"
                 THEN called \cup {"filter_up_and_coming_artists"} ELSE called
    /\ UNCHANGED << can_create_playlists, youtube, setup, playlist_id, kw, afrobeats_videos, videos, vi,
                    video_stats, filtered_videos, sorted_videos, idx, added,
                    playlist_inserts, item_inserts, manual_file, result,
                    raised, cls >>

(***************************************************************************)
(* filter_up_and_coming_artists (lines 293-333)                            *)
(***************************************************************************)

\* Lines 309-313.
MutMeetsSizeCriteria(v_stats, c_stats) ==
    /\ c_stats.view_count <= max_channel_views
    /\ v_stats.view_count >= min_video_views

MeetsSizeCriteria(v_stats, c_stats) ==
    /\ c_stats.subscriber_count <= max_subscribers
    /\ c_stats.view_count <= max_channel_views
    /\ v_stats.view_count >= min_video_views

\* Lines 299-326: whether the loop body keeps `video`.
Keeps(video, vstats, cstats) ==
    /\ video.video_id \in DOMAIN vstats
    /\ video.channel_id \in DOMAIN cstats
    /\ MeetsSizeCriteria(vstats[video.video_id], cstats[video.channel_id])
    /\ is_authentic_afrobeats(video.title, video.description, video.channel_title,
                              Get(vstats[video.video_id], "tags", <<>>))

\* Lines 327-328: video.update(v_stats); video.update(c_stats).
Enriched(video, vstats, cstats) ==
    Update(Update(video, vstats[video.video_id]), cstats[video.channel_id])

\* Line 329: filtered.append(video).
MutFilteredAppend(filtered, video) == <<video>> \o filtered

FilteredAppend(filtered, video) == Append(filtered, video)

\* Lines 297-333: the loop over videos, in their order.
RECURSIVE FilterLoop(_, _, _, _)
FilterLoop(filtered, vs, vstats, cstats) ==
    IF vs = <<>> THEN filtered
    ELSE FilterLoop(
             IF Keeps(Head(vs), vstats, cstats)
             THEN FilteredAppend(filtered, Enriched(Head(vs), vstats, cstats))
             ELSE filtered,
             Tail(vs), vstats, cstats)

\* update() changes the dict in place, and run's videos holds the same dicts.
UpdatedInPlace(vs, vstats, cstats) ==
    [k \in 1..Len(vs) |->
        IF Keeps(vs[k], vstats, cstats)
        THEN Enriched(vs[k], vstats, cstats) ELSE vs[k]]

\* Lines 490-495 of run(): what follows the filter.
AfterFilter(fs) == IF fs = <<>> THEN "done" ELSE "assemble"

\* The whole function, and run() taking the result (lines 489-495).
Filter ==
    /\ pc = "filter"
    /\ filtered_videos' = FilterLoop(<<>>, videos, video_stats, channel_stats)
    /\ videos' = UpdatedInPlace(videos, video_stats, channel_stats)
    /\ pc' = AfterFilter(filtered_videos')
    /\ called' = IF pc' = "done" THEN called
                 ELSE called \cup {"create_real_youtube_playlist"}
    /\ last' = NoCall
    /\ UNCHANGED << can_create_playlists, youtube, setup, playlist_id, kw, afrobeats_videos, vi, video_stats,
                    ch_requested, channel_stats, sorted_videos, idx, added,
                    stats_requests, stats_log, playlist_inserts, item_inserts, manual_file,
                    result, raised, cls >>

(***************************************************************************)
(* create_manual_instructions (lines 412-470)                              *)
(***************************************************************************)

\* f"Afrobeats Up and Coming {today}": the date is not modelled.
PlaylistName == "Afrobeats Up and Coming <today>"

\* Line 445.
VideoUrl(video_id) == << "https://youtube.com/watch?v=", video_id >>

\* Lines 422-429.
Instructions ==
    << "1. Go to https://www.youtube.com/",
       "2. Click your profile picture -> 'Your channel'",
       "3. Click 'CREATE' button -> 'New playlist'",
       "4. Name it: 'Afrobeats Up and Coming <today>'",
       "5. Set to 'Public'",
       "6. Use the video URLs below to add each song" >>

\* Lines 446-453: one entry of instructions['videos'].
ManualEntry(position, video) ==
    [position |-> position,
     title |-> video.title,
     artist |-> video.channel_title,
     url |-> VideoUrl(video.video_id),
     views |-> video.view_count,
     subscribers |-> video.subscriber_count]

\* Lines 416-462: the document written to afrobeats_manual_playlist.json.
ManualDocument(vs) ==
    LET sorted == SortedByViews(vs)
        top == Slice(sorted, 0, MaxManualVideos)
    IN  [written |-> TRUE,
         playlist_name |-> PlaylistName,
         total_videos |-> Len(sorted),
         instructions |-> Instructions,
         videos |-> [k \in 1..Len(top) |-> ManualEntry(k, top[k])]]

(***************************************************************************)
(* create_real_youtube_playlist (lines 335-410)                            *)
(***************************************************************************)

\* Line 369.
PlaylistUrl(id) == << "https://www.youtube.com/playlist?list=", id >>

\* Line 379: sorted_videos[:50].
ItemsToAdd == Slice(sorted_videos, 0, MaxPlaylistItems)

\* Lines 337-349: the entry of the function, up to the first request.
Assemble ==
    /\ pc = "assemble"
    /\ last' = NoCall
    /\ IF ~can_create_playlists
       THEN \* line 338: return self.create_manual_instructions(videos)
            /\ manual_file' = ManualDocument(filtered_videos)
            /\ result' = MANUAL_CREATION_GUIDE
            /\ pc' = "done"
            /\ UNCHANGED sorted_videos
       ELSE IF filtered_videos = <<>>
       THEN \* lines 340-342: return None
            /\ result' = << "None" >>
            /\ pc' = "done"
            /\ UNCHANGED << manual_file, sorted_videos >>
       ELSE \* line 345
            /\ sorted_videos' = SortedByViews(filtered_videos)
            /\ pc' = "create"
            /\ UNCHANGED << manual_file, result >>
    /\ UNCHANGED << can_create_playlists, youtube, setup, playlist_id, kw, afrobeats_videos, videos, vi,
                    video_stats, ch_requested, channel_stats, filtered_videos,
                    idx, added, called, stats_requests, stats_log, playlist_inserts,
                    item_inserts, raised, cls >>

\* Lines 351-376 and 408-410: the playlists.insert request.
CreatePlaylist ==
    /\ pc = "create"
    /\ playlist_inserts' = playlist_inserts + 1
    /\ \E outcome \in Outcomes :
        /\ last' = [call |-> "playlists.insert", outcome |-> outcome]
        /\ CASE outcome = "ok" ->
                   \* line 368
                   /\ playlist_id' = NewPlaylistId
                   /\ pc' = "add_items"
                   /\ UNCHANGED << manual_file, result, raised >>
             [] outcome = "HttpError" ->
                   \* line 410: return self.create_manual_instructions(videos)
                   /\ manual_file' = ManualDocument(filtered_videos)
                   /\ result' = MANUAL_CREATION_GUIDE
                   /\ pc' = "done"
                   /\ UNCHANGED << playlist_id, raised >>
             [] outcome = "Error" ->
                   \* not an HttpError: leaves the function, caught at line 508
                   /\ raised' = "create_real_youtube_playlist"
                   /\ pc' = "done"
                   /\ UNCHANGED << playlist_id, manual_file, result >>
    /\ UNCHANGED << can_create_playlists, youtube, setup, kw, afrobeats_videos, videos, vi,
                    video_stats, ch_requested, channel_stats, filtered_videos,
                    sorted_videos, idx, added, called, stats_requests, stats_log,
                    item_inserts, cls >>

\* Lines 379-401: one iteration of the playlistItems.insert loop.
AddItem ==
    /\ pc = "add_items"
    /\ idx < Len(ItemsToAdd)
    /\ item_inserts' = Append(item_inserts,
                              [videoId |-> ItemsToAdd[idx + 1].video_id,
                               position |-> idx])
    /\ \E outcome \in Outcomes :
        /\ last' = [call |-> "playlistItems.insert", outcome |-> outcome]
        /\ CASE outcome = "ok" ->
                   /\ added' = added + 1
                   /\ idx' = idx + 1
                   /\ UNCHANGED << pc, raised >>
             [] outcome = "HttpError" ->
                   \* except HttpError: continue
                   /\ idx' = idx + 1
                   /\ UNCHANGED << added, pc, raised >>
             [] outcome = "Error" ->
                   \* caught by neither except HttpError: leaves the function
                   /\ raised' = "create_real_youtube_playlist"
                   /\ pc' = "done"
                   /\ UNCHANGED << added, idx >>
    /\ UNCHANGED << can_create_playlists, youtube, setup, playlist_id, kw, afrobeats_videos, videos, vi,
                    video_stats, ch_requested, channel_stats, filtered_videos,
                    sorted_videos, called, stats_requests, stats_log, playlist_inserts,
                    manual_file, result, cls >>

\* Lines 403-406: the loop is over; return playlist_url.
PlaylistReturn ==
    /\ pc = "add_items"
    /\ idx = Len(ItemsToAdd)
    /\ result' = PlaylistUrl(playlist_id)
    /\ pc' = "done"
    /\ last' = NoCall
    /\ UNCHANGED << can_create_playlists, youtube, setup, playlist_id, kw, afrobeats_videos, videos, vi,
                    video_stats, ch_requested, channel_stats, filtered_videos,
                    sorted_videos, idx, added, called, stats_requests, stats_log,
                    playlist_inserts, item_inserts, manual_file, raised, cls >>

(***************************************************************************)
(* run() (lines 472-509)                                                   *)
(***************************************************************************)

\* run() calls the stages in turn; an exception leaving a stage is caught at
\* line 508 and ends the run (raised names the stage).  A KeyboardInterrupt
\* (line 506) is the user's doing and is not modelled.

\* The state run() starts from, after __init__.
Start ==
    /\ pc = "search"
    /\ kw = 0
    /\ afrobeats_videos = <<>>
    /\ videos = <<>>
    /\ vi = 0
    /\ video_stats = EmptyDict
    /\ ch_requested = {}
    /\ channel_stats = EmptyDict
    /\ filtered_videos = <<>>
    /\ sorted_videos = <<>>
    /\ playlist_id = NoPlaylist
    /\ idx = 0
    /\ added = 0
    /\ last = NoCall
    /\ called = {"search_afrobeats_videos"}
    /\ stats_requests = 0
    /\ stats_log = <<>>
    /\ playlist_inserts = 0
    /\ item_inserts = <<>>
    /\ manual_file = NoFile
    /\ result = NoResult
    /\ raised = "none"

(***************************************************************************)
(* __init__ and _setup_youtube (lines 29-132)                              *)
(***************************************************************************)

\* What _setup_youtube finds: token.json (absent, valid, expired with a
\* refresh token, stale without one, or unreadable), whether the refresh
\* and the browser flow succeed, whether credentials.json exists, how the
\* playlists().list probe ends, and whether YOUTUBE_API_KEY is set.
Environments ==
    [token : {"absent", "valid", "expired", "stale", "unreadable"},
     refresh_ok : BOOLEAN,
     credentials_file : BOOLEAN,
     flow_ok : BOOLEAN,
     probe : Outcomes,
     api_key : BOOLEAN]

\* Lines 109-119: _setup_api_key_mode, entered for `reason`; without a key
\* the process exits (exit(1) is not caught by except Exception).
setup_api_key_mode(env, reason) ==
    IF ~env.api_key
    THEN [exited |-> TRUE, youtube |-> "none", can_create_playlists |-> FALSE,
          fallback |-> reason, probe |-> "not made"]
    ELSE [exited |-> FALSE, youtube |-> "api_key", can_create_playlists |-> FALSE,
          fallback |-> reason, probe |-> "not made"]

\* Lines 121-132: what _test_playlist_creation makes of the probe's outcome,
\* when the probe does not raise past it.
Muttest_playlist_creation(outcome) == TRUE

test_playlist_creation(outcome) == outcome = "ok"

\* Lines 98-107: the client is built from the credentials and the probe is
\* made; an HttpError of the probe is caught in _test_playlist_creation and
\* leaves the OAuth client in place, any other exception reaches line 104.
build_and_probe(env) ==
    IF env.probe = "Error"
    THEN [setup_api_key_mode(env, "probe failed") EXCEPT !.probe = "Error"]
    ELSE [exited |-> FALSE, youtube |-> "oauth",
          can_create_playlists |-> test_playlist_creation(env.probe),
          fallback |-> "none", probe |-> env.probe]

\* Lines 73-107.
setup_youtube(env) ==
    IF env.token = "unreadable"
    THEN \* line 77 raises
         setup_api_key_mode(env, "oauth failed")
    ELSE IF env.token = "valid"
    THEN build_and_probe(env)
    ELSE IF env.token = "expired"
    THEN \* lines 80-82
         IF env.refresh_ok THEN build_and_probe(env)
         ELSE setup_api_key_mode(env, "oauth failed")
    ELSE \* lines 84-93
         IF ~env.credentials_file
         THEN setup_api_key_mode(env, "no credentials file")
         ELSE IF env.flow_ok THEN build_and_probe(env)
         ELSE setup_api_key_mode(env, "oauth failed")

\* The state after construction: _setup_youtube has run and the process has
\* not exited, so can_create_playlists is set (the hasattr test of line 337
\* is true).
Init ==
    /\ \E env \in Environments :
        LET s == setup_youtube(env)
        IN  /\ ~s.exited
            /\ can_create_playlists = s.can_create_playlists
            /\ youtube = s.youtube
            /\ setup = [fallback |-> s.fallback, probe |-> s.probe]
    /\ Start
    /\ cls = NoClassify

Next ==
    \/ SearchKeyword
    \/ SearchReturn
    \/ VideoStatsBatch
    \/ ChannelStatsBatch
    \/ Filter
    \/ Assemble
    \/ CreatePlaylist
    \/ AddItem
    \/ PlaylistReturn

Spec == Init /\ [][Next]_vars

(***************************************************************************)
(* The classifier on its own: one call with arguments from bounded sets    *)
(***************************************************************************)

ClsTitles ==
    { <<"N","a","i","j","a"," ","A","f","r","o","b","e","a","t","s"," ","B","a","n","g","e","r"," ","2","0","2","4"," ","O","f","f","i","c","i","a","l"," ","V","i","d","e","o">>,
      <<"H","i","g","h","l","i","f","e"," ","C","o","v","e","r"," ","o","f"," ","O","l","d"," ","N","a","i","j","a"," ","S","o","n","g">>,
      <<"A","c","c","r","a"," ","S","o","n","g">>,
      <<"A","f","r","o">>,
      <<"N","a","i","j","a"," ","L","a","g","o","s">>,
      <<"D","i","s","c","o","v","e","r"," ","N","a","i","j","a"," ","L","a","g","o","s"," ","T","r","a","c","k">>,
      <<"W","e","s","t"," ","A","f","r","i","c","a"," ","M","u","s","i","c">> }

ClsDescriptions == { <<>>, <<"B","e","a","t","s">>, <<"A","f","r","o"," ","P","o","p"," ","s","o","n","g">> }

ClsChannels == { <<"L","a","g","o","s"," ","S","o","u","n","d">>, <<"V","i","b","e","s">> }

ClsTagPool == { <<"N","a","i","j","a">>, <<"g","o","s","p","e","l">>, <<"A","m","a","p","i","a","n","o">> }

ClsTagLists == UNION { [1..n -> ClsTagPool] : n \in 0..MaxTags }

ClassifyInit ==
    /\ can_create_playlists = FALSE
    /\ youtube = "api_key"
    /\ setup = [fallback |-> "no credentials file", probe |-> "not made"]
    /\ Start
    /\ \E t \in ClsTitles, d \in ClsDescriptions, c \in ClsChannels,
          g \in ClsTagLists :
           cls = [called |-> FALSE, title |-> t, description |-> d,
                  channel_title |-> c, tags |-> g, verdict |-> FALSE]

Classify ==
    /\ ~cls.called
    /\ cls' = [cls EXCEPT
                 !.called = TRUE,
                 !.verdict = is_authentic_afrobeats(cls.title, cls.description,
                                                    cls.channel_title, cls.tags)]
    /\ UNCHANGED << pc, can_create_playlists, youtube, setup, playlist_id, kw, afrobeats_videos, videos, vi,
                    video_stats, ch_requested, channel_stats, filtered_videos,
                    sorted_videos, idx, added, last, called, stats_requests, stats_log,
                    playlist_inserts, item_inserts, manual_file, result, raised >>

ClassifyNext == Classify

SpecClassify == ClassifyInit /\ [][ClassifyNext]_vars

(***************************************************************************)
(* get_video_and_channel_stats on its own: candidate lists of up to one    *)
(* batch and MaxOver more, over one channel or a channel each              *)
(***************************************************************************)

BulkCandidates(n, m) ==
    [i \in 1..n |->
        [video_id |-> BulkVideoId(i), title |-> T_Official,
         channel_id |-> BulkChannelId(((i - 1) % m) + 1),
         channel_title |-> <<"L","a","g","o","s"," ","S","o","u","n","d">>, description |-> <<>>]]

StatsInit ==
    /\ can_create_playlists = FALSE
    /\ youtube = "api_key"
    /\ setup = [fallback |-> "no credentials file", probe |-> "not made"]
    /\ pc = "video_stats"
    /\ kw = NumKeywords
    /\ \E n \in BulkNumbers : \E m \in {1, n} :
        /\ videos = BulkCandidates(n, m)
        /\ afrobeats_videos = videos
    /\ vi = 0
    /\ video_stats = EmptyDict
    /\ ch_requested = {}
    /\ channel_stats = EmptyDict
    /\ filtered_videos = <<>>
    /\ sorted_videos = <<>>
    /\ playlist_id = NoPlaylist
    /\ idx = 0
    /\ added = 0
    /\ last = NoCall
    /\ called = {"search_afrobeats_videos", "get_video_and_channel_stats"}
    /\ stats_requests = 0
    /\ stats_log = <<>>
    /\ playlist_inserts = 0
    /\ item_inserts = <<>>
    /\ manual_file = NoFile
    /\ result = NoResult
    /\ raised = "none"
    /\ cls = NoClassify

StatsNext ==
    \/ VideoStatsBatch
    \/ ChannelStatsBatch

SpecStats == StatsInit /\ [][StatsNext]_vars

(***************************************************************************)
(* Claims                                                                  *)
(***************************************************************************)

TermsOf(terms) == { terms[k] : k \in 1..Len(terms) }

Present(terms, blob) == { t \in TermsOf(terms) : Contains(blob, t) }

ClsBlob == AllText(cls.title, cls.description, cls.channel_title, cls.tags)

\* The view count get_video_and_channel_stats recorded for a video.
VideoViews(video_id) == video_stats[video_id].view_count

NonIncreasingViews(ids) ==
    \A j, k \in 1..Len(ids) : j < k => VideoViews(ids[j]) >= VideoViews(ids[k])

InsertedIds == [k \in 1..Len(item_inserts) |-> item_inserts[k].videoId]

ManualIds ==
    IF manual_file.written
    THEN [k \in 1..Len(manual_file.videos) |-> manual_file.videos[k].url[2]]
    ELSE <<>>

\* C1: the add-item calls of create_real_youtube_playlist and the 'videos'
\* list of create_manual_instructions are in non-increasing order of the
\* videos' view counts, as recorded in the video-stats map.
C1_OrderedByVideoViews ==
    /\ NonIncreasingViews(InsertedIds)
    /\ NonIncreasingViews(ManualIds)

FilterReturned ==
    /\ "filter_up_and_coming_artists" \in called
    /\ pc # "filter"

\* C2: every candidate filter_up_and_coming_artists returns has channel
\* subscriberCount <= max_subscribers, channel viewCount <= max_channel_views
\* and video viewCount >= min_video_views; a candidate whose channel has
\* 300000 subscribers is never returned.
C2_OutputWithinThresholds ==
    /\ \A k \in 1..Len(filtered_videos) :
        LET f == filtered_videos[k]
            v == video_stats[f.video_id]
            c == channel_stats[f.channel_id]
        IN  /\ c.subscriber_count <= max_subscribers
            /\ c.view_count <= max_channel_views
            /\ v.view_count >= min_video_views
    /\ \A k \in 1..Len(videos) :
        (/\ videos[k].channel_id \in DOMAIN channel_stats
         /\ channel_stats[videos[k].channel_id].subscriber_count = 300000)
        => \A j \in 1..Len(filtered_videos) :
               filtered_videos[j].video_id # videos[k].video_id

\* The filter returned candidates and dropped one whose channel has 300000
\* subscribers and whose video has at least min_video_views views.
C2_Witness ==
    /\ FilterReturned
    /\ filtered_videos # <<>>
    /\ \E k \in 1..Len(videos) :
        /\ videos[k].channel_id \in DOMAIN channel_stats
        /\ videos[k].video_id \in DOMAIN video_stats
        /\ channel_stats[videos[k].channel_id].subscriber_count = 300000
        /\ video_stats[videos[k].video_id].view_count >= min_video_views

SearchReturned ==
    \/ pc \in {"video_stats", "channel_stats", "filter"}
    \/ pc = "done" /\ raised = "none" /\ called = {"search_afrobeats_videos"}

\* C4: what search_afrobeats_videos returns holds at most one record per
\* video identifier, one for every identifier accepted, and the record kept
\* for an identifier is the last one accepted under it.
C4_LastAcceptedKept ==
    SearchReturned =>
        /\ \A j, k \in 1..Len(videos) :
               videos[j].video_id = videos[k].video_id => j = k
        /\ \A i \in 1..Len(afrobeats_videos) :
               \E k \in 1..Len(videos) :
                   videos[k].video_id = afrobeats_videos[i].video_id
        /\ \A k \in 1..Len(videos) :
               \E i \in 1..Len(afrobeats_videos) :
                   /\ afrobeats_videos[i] = videos[k]
                   /\ \A i2 \in (i + 1)..Len(afrobeats_videos) :
                          afrobeats_videos[i2].video_id # videos[k].video_id

\* The search returned after accepting two different records under one
\* identifier, an earlier and a later one, and a record of another video.
C4_Witness ==
    /\ pc = "video_stats"
    /\ Len(videos) >= 2
    /\ \E i, j \in 1..Len(afrobeats_videos) :
        /\ i < j
        /\ afrobeats_videos[i].video_id = afrobeats_videos[j].video_id
        /\ afrobeats_videos[i] # afrobeats_videos[j]

LoopCalls == {"search.list", "videos.list", "channels.list", "playlistItems.insert"}

\* C5: a failed search, stats-batch or add-item call is caught where it is
\* made: the step leaves what was gathered so far as it was, the run goes
\* on (the loop proceeds), and no exception leaves the stage.
C5_LoopCallFailureContained ==
    [][ (last'.call \in LoopCalls /\ last'.outcome # "ok") =>
            /\ raised' = "none"
            /\ pc' # "done"
            /\ afrobeats_videos' = afrobeats_videos
            /\ video_stats' = video_stats
            /\ channel_stats' = channel_stats
            /\ added' = added
            /\ (last'.call = "search.list" => kw' = kw + 1)
            /\ (last'.call = "playlistItems.insert" => idx' = idx + 1)
      ]_vars

\* C6: when playlists.insert fails, no add-item call is issued, the manual
\* document for the same candidates is written, and the manual-guide
\* outcome is returned.
C6_CreateFailureDegradesToManual ==
    (last.call = "playlists.insert" /\ last.outcome # "ok") =>
        /\ item_inserts = <<>>
        /\ manual_file = ManualDocument(filtered_videos)
        /\ result = MANUAL_CREATION_GUIDE

\* C7: when the search returns no candidate, run ends without calling the
\* stats stage, the filter or the assembler; when the filter returns no
\* candidate, run ends without a create-playlist or add-item call and
\* without writing the manual file.
C7_EmptyStageEndsRun ==
    /\ (pc # "search" /\ raised # "search_afrobeats_videos" /\ videos = <<>>) =>
           /\ pc = "done"
           /\ raised = "none"
           /\ called = {"search_afrobeats_videos"}
           /\ stats_requests = 0
           /\ playlist_inserts = 0
           /\ item_inserts = <<>>
           /\ ~manual_file.written
    /\ (FilterReturned /\ filtered_videos = <<>>) =>
           /\ pc = "done"
           /\ raised = "none"
           /\ "create_real_youtube_playlist" \notin called
           /\ playlist_inserts = 0
           /\ item_inserts = <<>>
           /\ ~manual_file.written
           /\ result = NoResult

\* The filter was given candidates with their statistics and returned none.
C7_Witness ==
    /\ FilterReturned
    /\ filtered_videos = <<>>
    /\ DOMAIN video_stats # {}
    /\ DOMAIN channel_stats # {}
    /\ pc = "done"

\* C8: once the playlist is created, exactly one add-item call is issued for
\* each of the first min(50, n) candidates of the sorted sequence, in that
\* order, and the playlist URL is returned whether or not add-item calls
\* failed.
C8_OneInsertPerCandidate ==
    (playlist_id # NoPlaylist /\ pc = "done") =>
        /\ Len(item_inserts) = Min(MaxPlaylistItems, Len(sorted_videos))
        /\ \A k \in 1..Len(item_inserts) :
               item_inserts[k].videoId = sorted_videos[k].video_id
        /\ result = PlaylistUrl(playlist_id)

\* C9: without the playlist capability no create-playlist or add-item call
\* is issued and the manual-guide outcome is returned; the document's
\* 'videos' are the first min(20, n) candidates of the sorted sequence, at
\* positions 1..min(20, n), each with the candidate's title, channel title,
\* video URL, video view count and channel subscriber count.
C9_ManualListOfTopCandidates ==
    (~can_create_playlists /\ "create_real_youtube_playlist" \in called
         /\ pc = "done") =>
        LET sorted == SortedByViews(filtered_videos)
            n == Min(MaxManualVideos, Len(sorted))
        IN  /\ playlist_inserts = 0
            /\ item_inserts = <<>>
            /\ result = MANUAL_CREATION_GUIDE
            /\ manual_file.written
            /\ Len(manual_file.videos) = n
            /\ \A k \in 1..n :
                   manual_file.videos[k] =
                       [position |-> k,
                        title |-> sorted[k].title,
                        artist |-> sorted[k].channel_title,
                        url |-> VideoUrl(sorted[k].video_id),
                        views |-> video_stats[sorted[k].video_id].view_count,
                        subscribers |->
                            channel_stats[sorted[k].channel_id].subscriber_count]

\* The place of a video in run's videos (identifiers are unique there).
PlaceInVideos(video_id) ==
    CHOOSE k \in 1..Len(videos) : videos[k].video_id = video_id

\* C10: what the filter returns is a subsequence of its input, in the
\* input's order; a candidate whose video is absent from the video-stats
\* map or whose channel is absent from the channel-stats map is left out.
C10_OrderPreservingSubsequence ==
    FilterReturned =>
        /\ \A j \in 1..Len(filtered_videos) :
               \E k \in 1..Len(videos) : videos[k] = filtered_videos[j]
        /\ \A j1, j2 \in 1..Len(filtered_videos) :
               j1 < j2 => PlaceInVideos(filtered_videos[j1].video_id)
                              < PlaceInVideos(filtered_videos[j2].video_id)
        /\ \A k \in 1..Len(videos) :
               (\/ videos[k].video_id \notin DOMAIN video_stats
                \/ videos[k].channel_id \notin DOMAIN channel_stats)
               => \A j \in 1..Len(filtered_videos) :
                      filtered_videos[j].video_id # videos[k].video_id

\* The filter returned two candidates, the less viewed first, and left out a
\* candidate for a missing statistics entry.
C10_Witness ==
    /\ FilterReturned
    /\ Len(filtered_videos) >= 2
    /\ VideoViews(filtered_videos[1].video_id)
           < VideoViews(filtered_videos[2].video_id)
    /\ \E k \in 1..Len(videos) :
           \/ videos[k].video_id \notin DOMAIN video_stats
           \/ videos[k].channel_id \notin DOMAIN channel_stats

\* get_video_and_channel_stats has returned.
StatsReturned ==
    /\ "get_video_and_channel_stats" \in called
    /\ pc \notin {"search", "video_stats", "channel_stats"}

\* The requests of one kind in stats_log, as places in it.
RequestsOf(call) == { k \in 1..Len(stats_log) : stats_log[k].call = call }

\* The identifiers the service returned to the requests of one kind that
\* succeeded.
ReturnedTo(call, served) ==
    UNION { stats_log[k].ids \cap DOMAIN served :
              k \in { r \in RequestsOf(call) : stats_log[r].outcome = "ok" } }

\* An entry's number is the resource's count, or 0 when the field is absent.
CountOrZero(entry_value, statistics, field) ==
    IF field \in DOMAIN statistics
    THEN entry_value = ParseInt(statistics[field])
    ELSE entry_value = 0

\* C11: get_video_and_channel_stats asks for every video identifier and
\* every distinct channel identifier in exactly one batch of at most 50
\* identifiers; a failed batch does not end the function, and the maps
\* returned hold entries exactly for the identifiers the successful batches
\* returned, a count absent from a resource being 0.
C11_BatchesAndPartialResults ==
    /\ \A k \in 1..Len(stats_log) : Cardinality(stats_log[k].ids) <= 50
    /\ last.call \in {"videos.list", "channels.list"} =>
           (raised = "none" /\ pc \in {"video_stats", "channel_stats", "filter"})
    /\ StatsReturned =>
        /\ \A k \in 1..Len(videos) :
               Cardinality({ r \in RequestsOf("videos.list") :
                               videos[k].video_id \in stats_log[r].ids }) = 1
        /\ \A k \in 1..Len(videos) :
               Cardinality({ r \in RequestsOf("channels.list") :
                               videos[k].channel_id \in stats_log[r].ids }) = 1
        /\ \A r \in RequestsOf("videos.list") :
               stats_log[r].ids \subseteq { videos[k].video_id : k \in 1..Len(videos) }
        /\ \A r \in RequestsOf("channels.list") :
               stats_log[r].ids \subseteq { videos[k].channel_id : k \in 1..Len(videos) }
        /\ DOMAIN video_stats = ReturnedTo("videos.list", ServedVideos)
        /\ DOMAIN channel_stats = ReturnedTo("channels.list", ServedChannels)
        /\ \A id \in DOMAIN video_stats :
               LET s == ServedVideos[id].statistics
               IN  /\ CountOrZero(video_stats[id].view_count, s, "viewCount")
                   /\ CountOrZero(video_stats[id].like_count, s, "likeCount")
                   /\ CountOrZero(video_stats[id].comment_count, s, "commentCount")
        /\ \A id \in DOMAIN channel_stats :
               LET s == ServedChannels[id].statistics
               IN  /\ CountOrZero(channel_stats[id].subscriber_count, s,
                                  "subscriberCount")
                   /\ CountOrZero(channel_stats[id].view_count, s, "viewCount")
                   /\ CountOrZero(channel_stats[id].video_count, s, "videoCount")

\* The function returned after two videos.list batches, one failed and one
\* answered, and two channels.list batches; an entry has a count defaulted
\* to 0, and a requested video has no entry.
C11_Witness ==
    /\ StatsReturned
    /\ Cardinality(RequestsOf("videos.list")) = 2
    /\ Cardinality(RequestsOf("channels.list")) = 2
    /\ \E r \in RequestsOf("videos.list") : stats_log[r].outcome # "ok"
    /\ \E r \in RequestsOf("videos.list") : stats_log[r].outcome = "ok"
    /\ \E id \in DOMAIN video_stats :
           /\ "viewCount" \notin DOMAIN ServedVideos[id].statistics
           /\ video_stats[id].view_count = 0
    /\ \E k \in 1..Len(videos) : videos[k].video_id \notin DOMAIN video_stats

PlaylistWrites == playlist_inserts + Len(item_inserts)

\* C12: a create-playlist or add-item call is issued only when
\* can_create_playlists is true; the flag is true only with a client built
\* from OAuth credentials whose playlist-listing probe succeeded; after a
\* fall-back to API-key mode (no credentials file, OAuth failure, probe
\* failure) or a refused probe, no playlist write call is issued and the
\* assembler, when reached, takes the manual path.
C12_WritesOnlyWithCapability ==
    /\ PlaylistWrites > 0 => can_create_playlists
    /\ can_create_playlists => (youtube = "oauth" /\ setup.probe = "ok")
    /\ (\/ youtube = "api_key"
        \/ setup.fallback \in {"no credentials file", "oauth failed", "probe failed"}
        \/ setup.probe \in {"HttpError", "Error"}) =>
           /\ ~can_create_playlists
           /\ PlaylistWrites = 0
           /\ ("create_real_youtube_playlist" \in called /\ pc = "done") =>
                  /\ manual_file = ManualDocument(filtered_videos)
                  /\ result = MANUAL_CREATION_GUIDE

\* After the probe raised something other than an HttpError and setup fell
\* back to API-key mode, the assembler ran and took the manual path.
C12_Witness ==
    /\ youtube = "api_key"
    /\ setup.fallback = "probe failed"
    /\ "create_real_youtube_playlist" \in called
    /\ pc = "done"
    /\ manual_file.written

=============================================================================
